---------------------------- MODULE Spec2Model ----------------------------
(***************************************************************************)
(* Model of create_TIPMIP_emission_file.py: a linear batch script that     *)
(* loads a grid-area file and a template emission file, computes a         *)
(* constant CO2 emission rate from TCRE, fills monthly time bookkeeping    *)
(* and a (time, lat, lon) flux array, puts the array into the template     *)
(* dataset sliced to 3000 time steps, sets three attributes and writes     *)
(* the dataset to a new file.                                              *)
(*                                                                         *)
(* Numbers.  The script's floating point values are modelled exactly:      *)
(*  - time_bnds hold whole days (integers);                                *)
(*  - time holds half days, kept as a reduced fraction <<num, den>>;       *)
(*  - the flux chain E * 1e12 * 3.664 / dt / totarea / 12 is purely        *)
(*    multiplicative, so its values are kept as positive rationals in      *)
(*    factored form (a vector of exponents over Primes), or zero.          *)
(* Rounding of IEEE doubles is not modelled.                               *)
(*                                                                         *)
(* Grid.  The script's grid is 96 x 144; the model keeps nlat x nlon       *)
(* cells with small nlat, nlon (see the bounds below).                     *)
(***************************************************************************)
EXTENDS Integers, Sequences, FiniteSets, TLC

(* ------------------------------ bounds --------------------------------- *)
\* Grid rows / columns kept by the model (the script has 96 and 144).
nlat == 2
nlon == 2

(* ------------------------- program constants --------------------------- *)
nyears == 250
nmonth == nyears * 12
start_year == 1
\* np.ones((250*12, 1)): length of Edata
EdataYears == 250
\* the literal 250 of `start_year <= iy < start_year + 250`
RangeYears == 250
\* first year of the packed date codes: (1850 + (iy - 1)) * 10000
BaseYear == 1850
\* slice(0, 3000)
SliceStop == 3000
\* first year of the template file (emissions ..._175001-201512_...)
TemplateYear0 == 1750
\* months held by the template file 175001-201512
TemplateMonths == 3192
DaysPerYear == 365
SecPerDay == 86400
Int32Max == 2147483647

dayim == <<31, 28, 31, 30, 31, 30, 31, 31, 30, 31, 30, 31>>
date_mint == <<116, 215, 316, 416, 516, 616, 716, 816, 916, 1016, 1116, 1216>>

(* ------------------------------ numbers -------------------------------- *)
RECURSIVE CumSum(_, _)
\* np.cumsum: CumSum(s, k) = s[1] + ... + s[k]
CumSum(s, k) == IF k = 0 THEN 0 ELSE CumSum(s, k - 1) + s[k]

\* days = np.cumsum([0] + dayim[:-1]) + 1 : first day of year of each month
days == [m \in 1..12 |-> CumSum(<<0>> \o SubSeq(dayim, 1, 11), m) + 1]
\* daye = np.cumsum(dayim) : last day of year of each month
daye == [m \in 1..12 |-> CumSum(dayim, m)]

RECURSIVE Gcd(_, _)
Gcd(a, b) == IF b = 0 THEN a ELSE Gcd(b, a % b)

\* a / b for integers a >= 0, b > 0, as a reduced fraction
Frac(a, b) == LET g == Gcd(a, b) IN <<a \div g, b \div g>>
FracLess(x, y) == x[1] * y[2] < y[1] * x[2]
\* floor(x - n) for a fraction x and an integer n <= x
FracFloorMinus(x, n) == (x[1] - n * x[2]) \div x[2]

\* Factored rationals, as tuples <<sgn, e_1, ..., e_7>>: sgn 0 is 0.0 and
\* sgn 1 is the positive rational prod Primes[i]^e_i.
Primes == <<2, 3, 5, 7, 11, 31, 229>>

RECURSIVE Mult(_, _)
\* exponent of the prime p in n >= 1
Mult(n, p) == IF n % p = 0 THEN 1 + Mult(n \div p, p) ELSE 0

RZero == <<0, 0, 0, 0, 0, 0, 0, 0>>
RInt(n) ==
    IF n = 0 THEN RZero
    ELSE <<1, Mult(n, Primes[1]), Mult(n, Primes[2]), Mult(n, Primes[3]),
           Mult(n, Primes[4]), Mult(n, Primes[5]), Mult(n, Primes[6]),
           Mult(n, Primes[7])>>
RMul(a, b) ==
    IF a[1] = 0 \/ b[1] = 0 THEN RZero
    ELSE <<1, a[2] + b[2], a[3] + b[3], a[4] + b[4], a[5] + b[5],
           a[6] + b[6], a[7] + b[7], a[8] + b[8]>>
\* a / b, b # 0
RDiv(a, b) ==
    IF a[1] = 0 THEN RZero
    ELSE <<1, a[2] - b[2], a[3] - b[3], a[4] - b[4], a[5] - b[5],
           a[6] - b[6], a[7] - b[7], a[8] - b[8]>>
RECURSIVE RPow10(_)
\* the literal 1e<k>
RPow10(k) == IF k = 0 THEN RInt(1) ELSE RMul(RInt(10), RPow10(k - 1))

\* TCRE = 1.32
TCRE == RDiv(RInt(132), RInt(100))
\* E = 1000 * 0.02 / TCRE
EValue == RDiv(RMul(RInt(1000), RDiv(RInt(2), RInt(100))), TCRE)
\* the float literals of line 53 and line 49
Lit1e12 == RPow10(12)
Lit3664 == RDiv(RInt(3664), RInt(1000))
Lit12 == RInt(12)
Lit86400 == RInt(SecPerDay)

\* a plausible slip: the unit correction for time (/ dt) left out
FluxValueNoDt(ed, dt, totarea) ==
    RDiv(RDiv(RMul(RMul(ed, Lit1e12), Lit3664), totarea), Lit12)

\* line 53: Edata[k] * 1e12 * 3.664 / dt / totarea / 12
FluxValue(ed, dt, totarea) ==
    RDiv(RDiv(RDiv(RMul(RMul(ed, Lit1e12), Lit3664), dt), totarea), Lit12)

(* ------------------------------- files --------------------------------- *)
AreaPath == "areacella_fx.nc"
TemplatePath == "emissions-cmip6_175001-201512.nc"
OutPath == "emissions-ESM-tipmip_185001-209912.nc"
Paths == {AreaPath, TemplatePath, OutPath}

Lats == 1..nlat
Lons == 1..nlon
Cells == Lats \X Lons

AttrNames == {"data_title", "data_creator", "creation_date", "history"}
TemplateAttrs == [a \in AttrNames |-> "template"]
NoAttrs == [a \in AttrNames |-> "none"]

\* A file: kind "missing", "area", "emission" or "partial".  An area file
\* holds a grid of cell areas; an emission file holds a dataset.
NoGrid == [c \in Cells |-> 0]
NoDataset == [ntime |-> 0, nlat |-> 0, nlon |-> 0, t0 |-> 0, year0 |-> 0,
              CO2_flux |-> "none", attrs |-> NoAttrs]
Missing == [kind |-> "missing", grid |-> NoGrid, ds |-> NoDataset]
AreaFile(g) == [kind |-> "area", grid |-> g, ds |-> NoDataset]
EmissionFile(d) == [kind |-> "emission", grid |-> NoGrid, ds |-> d]
Partial == [kind |-> "partial", grid |-> NoGrid, ds |-> NoDataset]

\* Cell areas of an area file: equal cells, cells varying with latitude, and
\* cells varying with latitude and longitude.
AreaGrids == {[c \in Cells |-> 1], [c \in Cells |-> c[1]], [c \in Cells |-> c[1] * c[2]]}

\* A template dataset with nt monthly steps from January of TemplateYear0 and
\* a la x lo grid.  Its variables time, time_bnds and date are the monthly
\* calendar from year0; CO2_flux holds the template's own values.
TemplateDs(nt, la, lo) ==
    [ntime |-> nt, nlat |-> la, nlon |-> lo, t0 |-> 0, year0 |-> TemplateYear0,
     CO2_flux |-> "template", attrs |-> TemplateAttrs]

\* Shapes of the template file met by the script: the file as named
\* (3192 months, the script's grid), exactly 3000 months, one month short,
\* and a grid differing in one dimension.
TemplateShapes ==
    {<<TemplateMonths, nlat, nlon>>, <<SliceStop, nlat, nlon>>,
     <<SliceStop - 1, nlat, nlon>>, <<SliceStop, nlat + 1, nlon>>,
     <<SliceStop, nlat, nlon - 1>>}

TemplateFile(s) == EmissionFile(TemplateDs(s[1], s[2], s[3]))
\* The two input files at the start of a run; either may be missing.
Inputs ==
    ({Missing} \cup {AreaFile(g) : g \in AreaGrids})
    \X ({Missing} \cup {TemplateFile(s) : s \in TemplateShapes})

(* ---------------------- dataset variables (derived) -------------------- *)
\* Values of the time-dependent variables of a dataset d at step i (0-based):
\* step i of d is month t0 + i of the calendar starting in d.year0.
DsMonth(d, i) == ((d.t0 + i) % 12) + 1
DsYear(d, i) == d.year0 + ((d.t0 + i) \div 12)
DsDate(d, i) == DsYear(d, i) * 10000 + date_mint[DsMonth(d, i)]
DsTimeBnds0(d, i) ==
    DaysPerYear * ((d.t0 + i) \div 12) + days[DsMonth(d, i)] - 1
DsTimeBnds1(d, i) ==
    DaysPerYear * ((d.t0 + i) \div 12) + daye[DsMonth(d, i)]


\* dataset.isel(time=slice(a, b)) for 0 <= a <= b
Isel(d, a, b) ==
    LET lo == IF a < d.ntime THEN a ELSE d.ntime
        hi == IF b < d.ntime THEN b ELSE d.ntime
    IN  [d EXCEPT !.ntime = hi - lo, !.t0 = d.t0 + lo]

\* shape of dataset['CO2_flux'] (time, lat, lon)
DsShape(d) == <<d.ntime, d.nlat, d.nlon>>
\* shape of co2flx = np.zeros((nmonth, nlat, nlon))
Co2flxShape == <<nmonth, nlat, nlon>>
\* a plausible slip: only the grid is compared, not the number of time steps
ShapeOkGridOnly(d) == d.nlat = nlat /\ d.nlon = nlon

\* line 60: dataset['CO2_flux'].values = ... raises unless the replacement has
\* the shape of the variable
ShapeOk(d) == DsShape(d) = Co2flxShape

\* a plausible slip: the attributes replaced as a whole (dataset.attrs = {...})
ReplaceAttrs(d, name, value) ==
    [d EXCEPT !.attrs = [a \in AttrNames |-> IF a = name THEN value ELSE "none"]]

\* lines 63-65: dataset.assign_attrs({name: value})
AssignAttrs(d, name, value) == [d EXCEPT !.attrs[name] = value]

\* areavar.sum()
RECURSIVE SumCells(_, _)
SumCells(g, cs) ==
    IF cs = {} THEN 0
    ELSE LET c == CHOOSE x \in cs : TRUE IN g[c] + SumCells(g, cs \ {c})
TotArea(g) == SumCells(g, Cells)

\* a plausible slip: start_year < iy
InRangeStrict(y) == start_year < y /\ y < start_year + RangeYears

\* line 47: start_year <= iy < start_year + 250
InRange(y) == start_year <= y /\ y < start_year + RangeYears
\* idx = (iy - 1) * 12 + im - 1
Idx(y, m) == (y - 1) * 12 + m - 1
\* idx - (start_year - 1) * 12, the index into Edata
EdataIdx(i) == i - (start_year - 1) * 12
\* numpy indexing of an array of length n: negative indices count from the end
IndexOk(k, n) == -n <= k /\ k < n
Wrap(k, n) == IF k < 0 THEN k + n ELSE k

(* ------------------------------- state --------------------------------- *)
VARIABLES
    pc,         \* the statement to execute next
    status,     \* "running", "failed" (uncaught exception) or "done"
    files,      \* the file system: path -> file
    dataset,    \* the script's variable dataset (an opened file)
    areavar,    \* dataset['areacella'] of the area file
    Edata,      \* np.ones((250*12, 1)) * E
    iy, im,     \* loop variables (0 before the loops)
    time_bnds, time, date, co2flx,
    nwrite      \* number of to_netcdf calls made

vars == <<pc, status, files, dataset, areavar, Edata, iy, im,
          time_bnds, time, date, co2flx, nwrite>>

Months == 0..(nmonth - 1)

Init ==
    /\ pc = "load_area"
    /\ status = "running"
    /\ \E in \in Inputs :
          files = [p \in Paths |->
                     IF p = AreaPath THEN in[1]
                     ELSE IF p = TemplatePath THEN in[2] ELSE Missing]
    /\ dataset = Missing
    /\ areavar = NoGrid
    /\ Edata = << >>
    /\ iy = 0 /\ im = 0
    /\ time_bnds = << >> /\ time = << >> /\ date = << >> /\ co2flx = << >>
    /\ nwrite = 0

\* an uncaught exception: the interpreter exits at the current statement
Raise ==
    /\ status' = "failed"
    /\ UNCHANGED <<pc, files, dataset, areavar, Edata, iy, im,
                   time_bnds, time, date, co2flx, nwrite>>

\* lines 9-10: dataset = xr.open_dataset(area file); areavar = dataset[...]
LoadArea ==
    /\ pc = "load_area" /\ status = "running"
    /\ IF files[AreaPath].kind # "area"
       THEN Raise
       ELSE /\ dataset' = files[AreaPath]
            /\ areavar' = files[AreaPath].grid
            /\ pc' = "load_template"
            /\ UNCHANGED <<status, files, Edata, iy, im,
                           time_bnds, time, date, co2flx, nwrite>>

\* lines 13-15: dataset = xr.open_mfdataset(template); co2var = dataset[...]
LoadTemplate ==
    /\ pc = "load_template" /\ status = "running"
    /\ IF files[TemplatePath].kind # "emission"
       THEN Raise
       ELSE /\ dataset' = files[TemplatePath]
            /\ pc' = "compute_E"
            /\ UNCHANGED <<status, files, areavar, Edata, iy, im,
                           time_bnds, time, date, co2flx, nwrite>>

\* lines 18-20: TCRE, E, Edata
ComputeE ==
    /\ pc = "compute_E" /\ status = "running"
    /\ Edata' = [k \in 0..(EdataYears * 12 - 1) |-> RMul(RInt(1), EValue)]
    /\ pc' = "alloc"
    /\ UNCHANGED <<status, files, dataset, areavar, iy, im,
                   time_bnds, time, date, co2flx, nwrite>>

\* lines 24-38: the zero arrays
Alloc ==
    /\ pc = "alloc" /\ status = "running"
    /\ time_bnds' = [b \in 0..1 |-> [i \in Months |-> 0]]
    /\ time' = [i \in Months |-> Frac(0, 1)]
    /\ date' = [i \in Months |-> 0]
    /\ co2flx' = [i \in Months |-> [c \in Cells |-> RZero]]
    /\ pc' = "fill"
    /\ UNCHANGED <<status, files, dataset, areavar, Edata, iy, im, nwrite>>

\* a plausible slip: the "- 1" of line 42 left out
TimeBnds0Off(y, m) == DaysPerYear * (y - 1) + days[m]

\* line 42
TimeBnds0(y, m) == DaysPerYear * (y - 1) + days[m] - 1
\* line 43
TimeBnds1(y, m) == DaysPerYear * (y - 1) + daye[m]
\* line 44: np.sum(time_bnds[:, idx]) / 2.0
TimeMid(b0, b1) == Frac(b0 + b1, 2)
\* a plausible slip: 1850 + iy
DateCodeOff(y, m) == (BaseYear + y) * 10000 + date_mint[m]

\* line 45
DateCode(y, m) == (BaseYear + (y - 1)) * 10000 + date_mint[m]
\* line 49: dt = (time_bnds[1, idx] - time_bnds[0, idx]) * 86400.0
Dt(b0, b1) == RMul(RInt(b1 - b0), Lit86400)

\* lines 47-55: the value broadcast to co2flx[idx, :, :]
CellFlux(y, i, b0, b1) ==
    IF InRange(y)
    THEN FluxValue(Edata[Wrap(EdataIdx(i), EdataYears * 12)], Dt(b0, b1),
                   RInt(TotArea(areavar)))
    ELSE RZero

RECURSIVE SetCells(_, _, _)
\* row[c] = v for every cell c of cs
SetCells(row, cs, v) ==
    IF cs = {} THEN row
    ELSE LET c == CHOOSE x \in cs : TRUE
         IN  SetCells([row EXCEPT ![c] = v], cs \ {c}, v)

RECURSIVE SetCellsByArea(_, _, _, _, _)
SetCellsByArea(row, cs, i, b0, b1) ==
    IF cs = {} THEN row
    ELSE LET c == CHOOSE x \in cs : TRUE
             v == FluxValue(Edata[Wrap(EdataIdx(i), EdataYears * 12)],
                            Dt(b0, b1), RInt(areavar[c]))
         IN  SetCellsByArea([row EXCEPT ![c] = v], cs \ {c}, i, b0, b1)

\* a plausible slip: each cell divided by its own area, not by the total
RowPerCellArea(y, i, b0, b1) ==
    IF InRange(y) THEN SetCellsByArea(co2flx[i], Cells, i, b0, b1)
    ELSE SetCells(co2flx[i], Cells, RZero)

\* lines 53, 55: co2flx[idx, :, :] = <scalar>, broadcast over the grid
Row(y, i, b0, b1) == SetCells(co2flx[i], Cells, CellFlux(y, i, b0, b1))

\* lines 41-55: the loop body for year y and month m, on the arrays a
\* (a record of time_bnds, time, date, co2flx, iy, im and the flag failed)
Body(a, y, m) ==
    LET idx == Idx(y, m)
        b0 == TimeBnds0(y, m)
        b1 == TimeBnds1(y, m)
        a45 == [a EXCEPT !.time_bnds[0][idx] = b0,
                         !.time_bnds[1][idx] = b1,
                         !.time[idx] = TimeMid(b0, b1),
                         !.date[idx] = DateCode(y, m),
                         !.im = m]
    IN  IF InRange(y) /\ ~IndexOk(EdataIdx(idx), EdataYears * 12)
        THEN \* IndexError at line 53
             [a45 EXCEPT !.failed = TRUE]
        ELSE [a45 EXCEPT
                !.co2flx[idx] = Row(y, idx, b0, b1)]

\* a plausible slip: range(1, nyears)
YearRangeShort == 1..(nyears - 1)
\* line 39: range(1, nyears + 1)
YearRange == 1..nyears

RECURSIVE Months12(_, _, _)
\* line 40: for im in range(1, 13), from month m on, until an exception
Months12(a, y, m) ==
    IF m > 12 \/ a.failed THEN a ELSE Months12(Body(a, y, m), y, m + 1)

RECURSIVE Years(_, _)
\* line 39: for iy in range(1, nyears + 1), from year y on, until an exception
Years(a, y) ==
    IF y \notin YearRange \/ a.failed THEN a
    ELSE Years(Months12([a EXCEPT !.iy = y], y, 1), y + 1)

\* lines 39-55: the two nested loops, years ascending and months ascending
\* within each year
Fill ==
    /\ pc = "fill" /\ status = "running"
    /\ \E a \in {Years([time_bnds |-> time_bnds, time |-> time, date |-> date,
                        co2flx |-> co2flx, iy |-> iy, im |-> im, failed |-> FALSE],
                       1)} :
           /\ time_bnds' = a.time_bnds
           /\ time' = a.time
           /\ date' = a.date
           /\ co2flx' = a.co2flx
           /\ iy' = a.iy
           /\ im' = a.im
           /\ IF a.failed
              THEN status' = "failed" /\ UNCHANGED pc
              ELSE pc' = "isel" /\ UNCHANGED status
    /\ UNCHANGED <<files, dataset, areavar, Edata, nwrite>>

\* line 59: dataset = dataset.isel(time=slice(0, 3000))
IselStep ==
    /\ pc = "isel" /\ status = "running"
    /\ dataset' = [dataset EXCEPT !.ds = Isel(dataset.ds, 0, SliceStop)]
    /\ pc' = "assign"
    /\ UNCHANGED <<status, files, areavar, Edata, iy, im,
                   time_bnds, time, date, co2flx, nwrite>>

\* a plausible slip: the shape error swallowed, the script going on
AssignFluxNoRaise ==
    /\ pc = "assign" /\ status = "running"
    /\ dataset' = IF ShapeOk(dataset.ds)
                  THEN [dataset EXCEPT !.ds.CO2_flux = "co2flx"]
                  ELSE dataset
    /\ pc' = "attr_title"
    /\ UNCHANGED <<status, files, areavar, Edata, iy, im,
                   time_bnds, time, date, co2flx, nwrite>>

\* line 60: dataset['CO2_flux'].values = co2flx
AssignFlux ==
    /\ pc = "assign" /\ status = "running"
    /\ IF ~ShapeOk(dataset.ds)
       THEN Raise
       ELSE /\ dataset' = [dataset EXCEPT !.ds.CO2_flux = "co2flx"]
            /\ pc' = "attr_title"
            /\ UNCHANGED <<status, files, areavar, Edata, iy, im,
                           time_bnds, time, date, co2flx, nwrite>>

\* line 63
AttrTitle ==
    /\ pc = "attr_title" /\ status = "running"
    /\ dataset' = [dataset EXCEPT !.ds = AssignAttrs(dataset.ds, "data_title", "TIPMIP")]
    /\ pc' = "attr_creator"
    /\ UNCHANGED <<status, files, areavar, Edata, iy, im,
                   time_bnds, time, date, co2flx, nwrite>>

\* line 64
AttrCreator ==
    /\ pc = "attr_creator" /\ status = "running"
    /\ dataset' = [dataset EXCEPT !.ds = AssignAttrs(dataset.ds, "data_creator", "F. Froeb")]
    /\ pc' = "attr_date"
    /\ UNCHANGED <<status, files, areavar, Edata, iy, im,
                   time_bnds, time, date, co2flx, nwrite>>

\* line 65
AttrDate ==
    /\ pc = "attr_date" /\ status = "running"
    /\ dataset' = [dataset EXCEPT !.ds = AssignAttrs(dataset.ds, "creation_date", "2024-08-03")]
    /\ pc' = "write"
    /\ UNCHANGED <<status, files, areavar, Edata, iy, im,
                   time_bnds, time, date, co2flx, nwrite>>

\* lines 68-80: dataset.to_netcdf(out, mode="w", ...): the file is written, or
\* an I/O error leaves no file or a partial one
WriteOk ==
    /\ pc = "write" /\ status = "running"
    /\ files' = [files EXCEPT ![OutPath] = EmissionFile(dataset.ds)]
    /\ nwrite' = nwrite + 1
    /\ pc' = "end"
    /\ status' = "done"
    /\ UNCHANGED <<dataset, areavar, Edata, iy, im, time_bnds, time, date, co2flx>>

WriteFail ==
    /\ pc = "write" /\ status = "running"
    /\ \E f \in {Missing, Partial} : files' = [files EXCEPT ![OutPath] = f]
    /\ nwrite' = nwrite + 1
    /\ status' = "failed"
    /\ UNCHANGED <<pc, dataset, areavar, Edata, iy, im, time_bnds, time, date, co2flx>>

Next ==
    \/ LoadArea
    \/ LoadTemplate
    \/ ComputeE
    \/ Alloc
    \/ Fill
    \/ IselStep
    \/ AssignFlux
    \/ AttrTitle
    \/ AttrCreator
    \/ AttrDate
    \/ WriteOk
    \/ WriteFail

Spec == Init /\ [][Next]_vars

(* ------------------------------ properties ----------------------------- *)
\* the fill loop has run to its end
Filled == pc \in {"isel", "assign", "attr_title", "attr_creator", "attr_date",
                  "write", "end"}
\* the output file has been written
Written == files[OutPath].kind = "emission"
Template == files[TemplatePath].ds
Output == files[OutPath].ds
\* calendar month (1..12) of a time index
MonthOf(i) == (i % 12) + 1

\* C1: the time bounds and the date codes carried by the written file are the
\* ones the year/month loop computed (the monthly calendar from January 1850),
\* not the time values of the template's first 3000 steps.
C1_OutputCarriesComputedTimes ==
    Written =>
        \A i \in 0..(Output.ntime - 1) :
            /\ DsDate(Output, i) = date[i]
            /\ DsTimeBnds0(Output, i) = time_bnds[0][i]
            /\ DsTimeBnds1(Output, i) = time_bnds[1][i]

\* C2: after the fill loop, all cells of co2flx[idx] hold the same value, for
\* every time index idx.
C2_SpatiallyUniform ==
    Filled => \A idx \in Months : \A c1, c2 \in Cells :
                  co2flx[idx][c1] = co2flx[idx][c2]

\* the loop has run on an area grid whose cells differ, and the flux is set
C2_Witness ==
    /\ Filled
    /\ \E c1, c2 \in Cells : areavar[c1] # areavar[c2]
    /\ \A c \in Cells : co2flx[0][c] # RZero

\* C3: after the fill loop, co2flx at index (iy-1)*12+im-1 is zero when iy is
\* outside [start_year, start_year + 250) and positive when iy is inside; with
\* start_year = 1 and nyears = 250 every year is inside, and the index
\* idx - (start_year - 1) * 12 into Edata is within 0..2999 for those years.
C3_ZeroOutsideRange ==
    Filled =>
        \A y \in 1..nyears : \A m \in 1..12 :
            LET idx == (y - 1) * 12 + m - 1
                inside == start_year <= y /\ y < start_year + 250
            IN  /\ inside
                /\ idx - (start_year - 1) * 12 \in 0..2999
                /\ idx - (start_year - 1) * 12 \in DOMAIN Edata
                /\ \A c \in Cells :
                       IF inside THEN co2flx[idx][c][1] = 1
                                 ELSE co2flx[idx][c] = RZero

\* every row of the last year is filled with a positive flux
C3_Witness ==
    /\ Filled
    /\ \A m \in 1..12 : \A c \in Cells : co2flx[Idx(nyears, m)][c][1] = 1

\* the mass emitted per unit area in month i: co2flx[i] * dt[i], with dt the
\* length of the calendar month in seconds
Mass(i, c) == RMul(co2flx[i][c], RInt(dayim[MonthOf(i)] * SecPerDay))
\* one twelfth of the annual amount E, in kg CO2: E * 1e12 * 3.664 / 12
MonthlyAmount ==
    RDiv(RMul(RMul(EValue, RPow10(12)), RDiv(RInt(3664), RInt(1000))), RInt(12))

TemplateFits ==
    /\ Template.ntime >= 3000
    /\ Template.nlat = nlat
    /\ Template.nlon = nlon

\* C5: the written CO2_flux has 3000 time steps and the template's latitude
\* and longitude sizes; the assignment of the computed array takes place only
\* when the template has at least 3000 time steps and the script's grid, and
\* otherwise the run fails at the assignment without assigning.
C5_DimensionsMatch ==
    /\ Written => DsShape(Output) = <<3000, Template.nlat, Template.nlon>>
    /\ dataset.ds.CO2_flux = "co2flx" => TemplateFits
    /\ (Filled /\ pc # "isel" /\ ~TemplateFits) =>
           /\ pc = "assign"
           /\ dataset.ds.CO2_flux = "template"
           /\ ~Written
    /\ (Filled /\ pc # "isel" /\ pc # "assign") => dataset.ds.CO2_flux = "co2flx"

\* the file is written from a template longer than 3000 steps
C5_Witness ==
    /\ Written
    /\ Template.ntime > 3000
    /\ Output.CO2_flux = "co2flx"

\* position of a statement in the script
Rank(p) ==
    CASE p = "load_area" -> 1
      [] p = "load_template" -> 2
      [] p = "compute_E" -> 3
      [] p = "alloc" -> 4
      [] p = "fill" -> 5
      [] p = "isel" -> 6
      [] p = "assign" -> 7
      [] p = "attr_title" -> 8
      [] p = "attr_creator" -> 9
      [] p = "attr_date" -> 10
      [] p = "write" -> 11
      [] p = "end" -> 12

\* time index i has been filled by the loop
RowFilled(i) == date[i] # 0

C6_State ==
    /\ nwrite <= 1
    /\ Rank(pc) <= Rank("fill") => iy = 0 /\ im = 0
    /\ pc = "fill" => \A i \in Months : ~RowFilled(i)
    /\ Filled => /\ iy = nyears /\ im = 12
                 /\ \A i \in Months : RowFilled(i)
    /\ nwrite = 1 => /\ pc \in {"write", "end"}
                     /\ \A i \in Months : RowFilled(i)
    /\ status = "done" <=> pc = "end"
    /\ status = "done" => nwrite = 1 /\ Written /\ ~ENABLED Next

C6_Step ==
    \/ Rank(pc') = Rank(pc) + 1 /\ status = "running"
    \/ pc' = pc /\ status = "running" /\ status' = "failed"

C7_State ==
    /\ files[AreaPath].kind = "missing" => pc = "load_area"
    /\ files[TemplatePath].kind = "missing" => pc \in {"load_area", "load_template"}
    /\ ~TemplateFits => Rank(pc) <= Rank("assign")
    /\ (status = "failed" /\ pc # "write") => files[OutPath] = Missing /\ nwrite = 0
    /\ status = "failed" =>
           /\ ~ENABLED Next
           /\ \/ pc = "load_area" /\ files[AreaPath].kind = "missing"
              \/ pc = "load_template" /\ files[TemplatePath].kind = "missing"
              \/ pc = "assign" /\ ~TemplateFits
              \/ pc = "write" /\ ~Written

\* C7: a failure of a step (area file missing, template file missing, shape
\* mismatch at the assignment, I/O error at the write) ends the run at that
\* step: no step is taken from a failed state, and a failure before the write
\* leaves no output file.
C7_FailureEndsRun == []C7_State /\ [][status = "running"]_vars

\* the run has failed at the assignment, after the whole fill loop
C7_Witness == status = "failed" /\ pc = "assign" /\ RowFilled(nmonth - 1)

\* C8: after the fill loop the time bounds tile 250 years of 365 days: they
\* start at 0, end at 91250, each month's upper bound is the next month's
\* lower bound, each month has its calendar length, and time is the midpoint
\* of the bounds, hence strictly increasing.
C8_TimeBoundsTile ==
    Filled =>
        /\ time_bnds[0][0] = 0
        /\ time_bnds[1][2999] = 365 * 250
        /\ time_bnds[1][2999] = 91250
        /\ \A idx \in 0..2998 : time_bnds[1][idx] = time_bnds[0][idx + 1]
        /\ \A idx \in 0..2999 :
               /\ time_bnds[1][idx] - time_bnds[0][idx] = dayim[MonthOf(idx)]
               /\ 2 * time[idx][1] = (time_bnds[0][idx] + time_bnds[1][idx]) * time[idx][2]
        /\ \A idx \in 0..2998 : FracLess(time[idx], time[idx + 1])

C8_Witness == Filled /\ time_bnds[1][2999] > time_bnds[0][2999] /\ time[0] = <<31, 2>>

\* C9: after the fill loop date[(iy-1)*12+im-1] = (1849+iy)*10000 + im*100 + d
\* where d is the calendar day holding the month's time midpoint (15 for
\* February, 16 otherwise); the codes rise strictly from 18500116 to 20991216
\* and fit a signed 32-bit integer.
C9_DateCodes ==
    Filled =>
        /\ \A y \in 1..250 : \A m \in 1..12 :
               LET idx == (y - 1) * 12 + m - 1
                   d == FracFloorMinus(time[idx], time_bnds[0][idx]) + 1
               IN  /\ date[idx] = (1849 + y) * 10000 + m * 100 + d
                   /\ d = IF m = 2 THEN 15 ELSE 16
        /\ \A idx \in 0..2998 : date[idx] < date[idx + 1]
        /\ date[0] = 18500116
        /\ date[2999] = 20991216
        /\ \A idx \in 0..2999 : date[idx] >= 0 /\ date[idx] <= Int32Max

C9_Witness == Filled /\ date[1] = 18500215 /\ date[2999] # 0

ChangedAttrs == {"data_title", "data_creator", "creation_date"}
\* d with the flux and the three attributes put back to those of t
Restored(d, t) ==
    [d EXCEPT !.CO2_flux = t.CO2_flux,
              !.attrs = [a \in AttrNames |->
                            IF a \in ChangedAttrs THEN t.attrs[a] ELSE d.attrs[a]]]

C10_State ==
    Written =>
        /\ Restored(Output, Isel(Template, 0, 3000)) = Isel(Template, 0, 3000)
        /\ Output.CO2_flux = "co2flx"
        /\ \A a \in ChangedAttrs : Output.attrs[a] # Template.attrs[a]

=============================================================================
